---- MODULE Spec2Model ----
(***************************************************************************)
(* Model of backend/main.py (LDGradnja backend): the two conversion        *)
(* handlers convert_dwg_to_dxf and convert_dwg_to_svg, and the reverse     *)
(* proxy handler openai_proxy.                                             *)
(*                                                                         *)
(* Strings that the code inspects (file names) are sequences of one-       *)
(* character strings.  File contents are records [fmt, id, len]: the       *)
(* format of the bytes, the upload they derive from, and their length.     *)
(* The file system is the set of existing temporary directories and a map  *)
(* from (directory, file name) to contents.                                *)
(***************************************************************************)
EXTENDS Integers, Sequences, FiniteSets, TLC

VARIABLES
    req,        \* conversion requests: the endpoint and the uploaded file
    pc,         \* position of each conversion request in its handler
    content,    \* local `content` (bytes read from the upload)
    tmpdir,     \* local `tmpdir` (0 outside the with block)
    proc,       \* outcome of subprocess.run(["dwg2dxf", ...])
    rendered,   \* rendering stage of the request: "no", "ok", "failed"
    response,   \* response of the request (pending until pc = "done")
    dirs,       \* file system: existing temporary directories
    files,      \* file system: contents of (directory, name)
    env,        \* os.environ["OPENAI_API_KEY"] ("" when unset)
    preq,       \* proxy requests: method and Authorization header
    ppc,        \* position of each proxy request in openai_proxy
    auth,       \* local `auth` of each proxy request
    outbound,   \* calls made to api.openai.com
    presp       \* response of each proxy request

convVars  == <<req, pc, content, tmpdir, proc, rendered, response, dirs, files>>
proxyVars == <<env, preq, ppc, auth, outbound, presp>>
vars      == <<req, pc, content, tmpdir, proc, rendered, response, dirs, files,
               env, preq, ppc, auth, outbound, presp>>

----------------------------------------------------------------------------
(* Bounds *)

NumReqs   == 2   \* conversion request slots
MaxParts  == 2   \* file names are concatenations of at most MaxParts segments
LenSlack  == 1   \* upload lengths range over MAX_UPLOAD -/+ LenSlack
NumProxy  == 2   \* proxy request slots

Reqs     == 1..NumReqs
DirNames == 1..NumReqs
PReqs    == 1..NumProxy

----------------------------------------------------------------------------
(* Strings *)

DWG == <<".", "d", "w", "g">>
DXF == <<".", "d", "x", "f">>

lower_char(c) ==
    CASE c = "D" -> "d"
      [] c = "W" -> "w"
      [] c = "G" -> "g"
      [] c = "A" -> "a"
      [] OTHER   -> c

lower(s) == [i \in 1..Len(s) |-> lower_char(s[i])]

endswith(s, suffix) ==
    /\ Len(s) >= Len(suffix)
    /\ SubSeq(s, Len(s) - Len(suffix) + 1, Len(s)) = suffix

startswith(s, prefix) ==
    /\ Len(s) >= Len(prefix)
    /\ SubSeq(s, 1, Len(prefix)) = prefix

\* str.replace(old, new): every non-overlapping occurrence, left to right
RECURSIVE replace(_, _, _)
replace(s, old, new) ==
    IF Len(s) < Len(old) THEN s
    ELSE IF startswith(s, old)
         THEN new \o replace(SubSeq(s, Len(old) + 1, Len(s)), old, new)
         ELSE <<Head(s)>> \o replace(Tail(s), old, new)

Segments == { <<"a">>, DWG, <<".", "D", "W", "G">>, <<".", "D", "w", "g">>,
              DXF, <<"d", "w", "g">> }

RECURSIVE NamesOf(_)
NamesOf(n) ==
    IF n = 0 THEN { <<>> }
    ELSE LET shorter == NamesOf(n - 1)
         IN  shorter \cup { s \o t : s \in shorter, t \in Segments }

Names == NamesOf(MaxParts)

----------------------------------------------------------------------------
(* Uploads, bytes and responses *)

MAX_UPLOAD == 50 * 1024 * 1024

Lens == {0} \cup ((MAX_UPLOAD - LenSlack)..(MAX_UPLOAD + LenSlack))

NoBytes == [fmt |-> "none", id |-> 0, len |-> 0]

UploadBytes(i, n) == [fmt |-> "dwg", id |-> i, len |-> n]

\* what dwg2dxf writes for the input file it read
Dwg2Dxf(b) == [fmt |-> "dxf", id |-> b.id, len |-> b.len]

\* what fig.savefig writes for the document ezdxf read
Dxf2Svg(b) == [fmt |-> "svg", id |-> b.id, len |-> b.len]

\* named = FALSE stands for file.filename being None
Uploads(ids, names, lens) ==
    [named : {TRUE}, filename : names, bytes : {UploadBytes(i, n) : i \in ids, n \in lens}]
    \cup [named : {FALSE}, filename : { <<>> }, bytes : {UploadBytes(i, n) : i \in ids, n \in lens}]

NoUpload == [named |-> FALSE, filename |-> <<>>, bytes |-> NoBytes]

NoRequest == [endpoint |-> "none", file |-> NoUpload]

NoResponse ==
    [status |-> 0, media_type |-> "", body |-> NoBytes, detail |-> <<>>,
     ContentDisposition |-> <<>>, XFallback |-> "", XError |-> ""]

\* raise HTTPException(status, detail)
HTTPException(status, detail) ==
    [NoResponse EXCEPT !.status = status, !.media_type = "application/json",
                       !.detail = detail]

\* an exception that no handler catches: the framework answers 500
ServerError == HTTPException(500, <<"Internal Server Error">>)

NoProc == [kind |-> "none", returncode |-> 0, stderr |-> "", wrote |-> "none"]

----------------------------------------------------------------------------
(* File system *)

FileNames == {"input.dwg", "output.dxf", "input.dxf", "output.svg"}

Absent == NoBytes

exists(d, name) == d \in dirs /\ files[<<d, name>>] # Absent

\* a fixed scratch directory instead of a fresh one
mkdtempFixed(ds) == {1}

\* tempfile.TemporaryDirectory(): a directory name that does not exist yet
mkdtemp(ds) == DirNames \ ds

\* the directory is never removed
cleanupLeak(ds, d) == ds

\* TemporaryDirectory.__exit__: the directories left after removing d
cleanup(ds, d) == ds \ {d}

rmtree(fs, d) == [k \in DOMAIN fs |-> IF k[1] = d THEN Absent ELSE fs[k]]

\* the other name a dwg2dxf build may choose for its output
OtherDxfName(expected) == IF expected = "output.dxf" THEN "input.dxf" ELSE "output.dxf"

----------------------------------------------------------------------------
(* Decisions of the handlers *)

\* the suffix compared without its dot
IsDwgNameNoDot(f) == f.named /\ f.filename # <<>> /\ endswith(lower(f.filename), <<"d", "w", "g">>)

\* not (not file.filename or not file.filename.lower().endswith(".dwg"))
IsDwgName(f) == f.named /\ f.filename # <<>> /\ endswith(lower(f.filename), DWG)

\* the limit compared with >=
TooLargeInclusive(b) == b.len >= MAX_UPLOAD

\* len(content) > 50 * 1024 * 1024
TooLarge(b) == b.len > MAX_UPLOAD

\* only a death by signal (negative return code) counts as failure
ConverterFailedSignalOnly(res) == res.returncode < 0

\* result.returncode != 0
ConverterFailed(res) == res.returncode # 0

\* file.filename.replace('.dwg', '.dxf')
DxfFilename(name) == replace(name, DWG, DXF)

ContentDisposition(name) == <<"attachment; filename=">> \o DxfFilename(name)

----------------------------------------------------------------------------
(* Steps shared by the two conversion handlers *)

Raise(r, resp, next) ==
    /\ response' = [response EXCEPT ![r] = resp]
    /\ pc' = [pc EXCEPT ![r] = next]

\* lines 34-35 / 75-76
Validate(r) ==
    /\ pc[r] = "received"
    /\ IF IsDwgName(req[r].file)
       THEN /\ pc' = [pc EXCEPT ![r] = "read"]
            /\ UNCHANGED response
       ELSE Raise(r, HTTPException(400, <<"Fajl mora biti .dwg format">>), "done")
    /\ UNCHANGED <<req, content, tmpdir, proc, rendered, dirs, files>>

\* lines 37-39 / 78-80
ReadUpload(r) ==
    /\ pc[r] = "read"
    /\ content' = [content EXCEPT ![r] = req[r].file.bytes]
    /\ IF TooLarge(req[r].file.bytes)
       THEN Raise(r, HTTPException(413, <<"Fajl je prevelik (max 50MB)">>), "done")
       ELSE /\ pc' = [pc EXCEPT ![r] = "mktmp"]
            /\ UNCHANGED response
    /\ UNCHANGED <<req, tmpdir, proc, rendered, dirs, files>>

\* line 41 / 82
EnterTmpdir(r) ==
    /\ pc[r] = "mktmp"
    /\ \E d \in mkdtemp(dirs) :
         /\ tmpdir' = [tmpdir EXCEPT ![r] = d]
         /\ dirs' = dirs \cup {d}
    /\ pc' = [pc EXCEPT ![r] = "write"]
    /\ UNCHANGED <<req, content, proc, rendered, response, files>>

\* lines 45-46 / 85-86: outside the try, so an OSError is not translated
WriteInput(r) ==
    /\ pc[r] = "write"
    /\ \/ /\ tmpdir[r] \in dirs
          /\ files' = [files EXCEPT ![<<tmpdir[r], "input.dwg">>] = content[r]]
          /\ pc' = [pc EXCEPT ![r] = "run"]
          /\ UNCHANGED response
       \/ /\ Raise(r, ServerError, "exit")
          /\ UNCHANGED files
    /\ UNCHANGED <<req, content, tmpdir, proc, rendered, dirs>>

\* subprocess.run(["dwg2dxf", "-o", out, input_path], timeout=60) and the
\* handlers of TimeoutExpired and of other exceptions
RunConverter(r, out, prefix) ==
    /\ pc[r] = "run"
    /\ \E kind \in {"exited", "timeout", "oserror"} :
       \E rc \in {0, 1} :
       \E wr \in {"none", "expected", "other"} :
         /\ kind # "exited" => rc = 0
         /\ kind = "oserror" => wr = "none"
         /\ wr # "none" => exists(tmpdir[r], "input.dwg")
         /\ proc' = [proc EXCEPT ![r] =
                        [kind |-> kind, returncode |-> rc,
                         stderr |-> IF rc = 0 THEN "" ELSE "ERROR", wrote |-> wr]]
         /\ files' =
              IF wr = "none" THEN files
              ELSE [files EXCEPT
                      ![<<tmpdir[r], IF wr = "expected" THEN out ELSE OtherDxfName(out)>>] =
                          Dwg2Dxf(files[<<tmpdir[r], "input.dwg">>])]
         /\ CASE kind = "exited" ->
                   /\ pc' = [pc EXCEPT ![r] = "check"]
                   /\ UNCHANGED response
              [] kind = "timeout" ->
                   Raise(r, HTTPException(500, <<"Konverzija je istekla (timeout)">>), "exit")
              [] kind = "oserror" ->
                   Raise(r, HTTPException(500, <<prefix, "No such file or directory: 'dwg2dxf'">>), "exit")
    /\ UNCHANGED <<req, content, tmpdir, rendered, dirs>>

\* TemporaryDirectory.__exit__, on return and on every exception
ExitTmpdir(r) ==
    /\ pc[r] = "exit"
    /\ dirs' = cleanup(dirs, tmpdir[r])
    /\ files' = IF tmpdir[r] \in dirs' THEN files ELSE rmtree(files, tmpdir[r])
    /\ tmpdir' = [tmpdir EXCEPT ![r] = 0]
    /\ pc' = [pc EXCEPT ![r] = "done"]
    /\ UNCHANGED <<req, content, proc, rendered, response>>

----------------------------------------------------------------------------
(* convert_dwg_to_dxf *)

IsDxf(r) == req[r].endpoint = "dwg-to-dxf"

Dxf_Validate(r) == IsDxf(r) /\ Validate(r) /\ UNCHANGED proxyVars

Dxf_ReadUpload(r) == IsDxf(r) /\ ReadUpload(r) /\ UNCHANGED proxyVars

Dxf_EnterTmpdir(r) == IsDxf(r) /\ EnterTmpdir(r) /\ UNCHANGED proxyVars

Dxf_WriteInput(r) == IsDxf(r) /\ WriteInput(r) /\ UNCHANGED proxyVars

Dxf_RunConverter(r) ==
    /\ IsDxf(r)
    /\ RunConverter(r, "output.dxf", "Konverzija nije uspjela: ")
    /\ UNCHANGED proxyVars

\* lines 53-63 and the handlers at 66-69
Dxf_Respond(r) ==
    /\ IsDxf(r)
    /\ pc[r] = "check"
    /\ IF ConverterFailed(proc[r])
       THEN Raise(r, HTTPException(500, <<"Konverzija nije uspjela: ", proc[r].stderr>>), "exit")
       ELSE IF ~exists(tmpdir[r], "output.dxf")
       THEN Raise(r, HTTPException(500, <<"Konverzija nije uspjela: ",
                                          "No such file or directory: 'output.dxf'">>), "exit")
       ELSE Raise(r, [NoResponse EXCEPT
                        !.status = 200,
                        !.media_type = "application/dxf",
                        !.body = files[<<tmpdir[r], "output.dxf">>],
                        !.ContentDisposition = ContentDisposition(req[r].file.filename)],
                  "exit")
    /\ UNCHANGED <<req, content, tmpdir, proc, rendered, dirs, files>>
    /\ UNCHANGED proxyVars

Dxf_ExitTmpdir(r) == IsDxf(r) /\ ExitTmpdir(r) /\ UNCHANGED proxyVars

----------------------------------------------------------------------------
(* convert_dwg_to_svg *)

IsSvg(r) == req[r].endpoint = "dwg-to-svg"

Svg_Validate(r) == IsSvg(r) /\ Validate(r) /\ UNCHANGED proxyVars

Svg_ReadUpload(r) == IsSvg(r) /\ ReadUpload(r) /\ UNCHANGED proxyVars

Svg_EnterTmpdir(r) == IsSvg(r) /\ EnterTmpdir(r) /\ UNCHANGED proxyVars

Svg_WriteInput(r) == IsSvg(r) /\ WriteInput(r) /\ UNCHANGED proxyVars

Svg_RunConverter(r) ==
    /\ IsSvg(r)
    /\ RunConverter(r, "input.dxf", "SVG konverzija nije uspjela: ")
    /\ UNCHANGED proxyVars

\* lines 95-96
Svg_CheckExit(r) ==
    /\ IsSvg(r)
    /\ pc[r] = "check"
    /\ IF ConverterFailed(proc[r])
       THEN Raise(r, HTTPException(500, <<"DWG->DXF konverzija nije uspjela: ", proc[r].stderr>>), "exit")
       ELSE /\ pc' = [pc EXCEPT ![r] = "render"]
            /\ UNCHANGED response
    /\ UNCHANGED <<req, content, tmpdir, proc, rendered, dirs, files>>
    /\ UNCHANGED proxyVars

\* lines 99-116 and the handler at 127-128: ezdxf.readfile, draw_layout, savefig
Svg_Render(r) ==
    /\ IsSvg(r)
    /\ pc[r] = "render"
    /\ \/ /\ exists(tmpdir[r], "input.dxf")
          /\ rendered' = [rendered EXCEPT ![r] = "ok"]
          /\ files' = [files EXCEPT ![<<tmpdir[r], "output.svg">>] =
                          Dxf2Svg(files[<<tmpdir[r], "input.dxf">>])]
          /\ pc' = [pc EXCEPT ![r] = "readsvg"]
          /\ UNCHANGED response
       \/ /\ rendered' = [rendered EXCEPT ![r] = "failed"]
          /\ Raise(r, HTTPException(500, <<"SVG konverzija nije uspjela: ",
                        IF exists(tmpdir[r], "input.dxf")
                        THEN "Invalid or corrupted DXF file"
                        ELSE "No such file or directory: 'input.dxf'">>), "exit")
          /\ UNCHANGED files
    /\ UNCHANGED <<req, content, tmpdir, proc, dirs>>
    /\ UNCHANGED proxyVars

\* lines 118-121
Svg_Respond(r) ==
    /\ IsSvg(r)
    /\ pc[r] = "readsvg"
    /\ IF ~exists(tmpdir[r], "output.svg")
       THEN Raise(r, HTTPException(500, <<"SVG konverzija nije uspjela: ",
                                          "No such file or directory: 'output.svg'">>), "exit")
       ELSE Raise(r, [NoResponse EXCEPT
                        !.status = 200,
                        !.media_type = "image/svg+xml",
                        !.body = files[<<tmpdir[r], "output.svg">>]],
                  "exit")
    /\ UNCHANGED <<req, content, tmpdir, proc, rendered, dirs, files>>
    /\ UNCHANGED proxyVars

Svg_ExitTmpdir(r) == IsSvg(r) /\ ExitTmpdir(r) /\ UNCHANGED proxyVars

----------------------------------------------------------------------------
(* openai_proxy *)

\* values of OPENAI_API_KEY; "" is what os.environ.get returns when it is unset
Keys == {"", "sk-1", "sk-2"}

\* Authorization headers a caller may send
CallerAuths == { <<>>, <<"Bearer ", "sk-caller">> }

ProxyRequests ==
    [method : {"POST", "GET"}, hasAuth : {TRUE}, Authorization : CallerAuths]
    \cup [method : {"POST", "GET"}, hasAuth : {FALSE}, Authorization : { <<>> }]

NoProxyRequest == [method |-> "NONE", hasAuth |-> FALSE, Authorization |-> <<>>]

NoProxyResponse == [status |-> 0, detail |-> ""]

\* request.headers.get("Authorization", "")
HeaderAuthorization(q) == IF q.hasAuth THEN q.Authorization ELSE <<>>

\* the caller's header wins over the server's key
ResolveAuthCallerFirst(api_key, q) ==
    IF HeaderAuthorization(q) # <<>> THEN HeaderAuthorization(q) ELSE <<"Bearer ", api_key>>

\* f"Bearer {api_key}" if api_key else request.headers.get("Authorization", "")
ResolveAuth(api_key, q) ==
    IF api_key # "" THEN <<"Bearer ", api_key>> ELSE HeaderAuthorization(q)

\* the check compares with None, which a string never is
NoCredentialIsNone(a) == FALSE

\* not auth
NoCredential(a) == a = <<>>

ProxyLocals ==
    /\ ppc = [p \in PReqs |-> IF preq[p] = NoProxyRequest THEN "idle" ELSE "start"]
    /\ auth = [p \in PReqs |-> <<>>]
    /\ outbound = {}
    /\ presp = [p \in PReqs |-> NoProxyResponse]

\* lines 134-138
Proxy_Resolve(p) ==
    /\ ppc[p] = "start"
    /\ auth' = [auth EXCEPT ![p] = ResolveAuth(env, preq[p])]
    /\ IF NoCredential(auth'[p])
       THEN /\ presp' = [presp EXCEPT ![p] =
                           [status |-> 401, detail |-> "OpenAI API key not configured. Set OPENAI_API_KEY environment variable."]]
            /\ ppc' = [ppc EXCEPT ![p] = "done"]
       ELSE /\ ppc' = [ppc EXCEPT ![p] = "body"]
            /\ UNCHANGED presp
    /\ UNCHANGED <<env, preq, outbound>>
    /\ UNCHANGED convVars

\* lines 140-144
Proxy_ReadBody(p) ==
    /\ ppc[p] = "body"
    /\ ppc' = [ppc EXCEPT ![p] = "send"]
    /\ UNCHANGED <<env, preq, auth, outbound, presp>>
    /\ UNCHANGED convVars

\* lines 146-162: the call to api.openai.com and what comes back
Proxy_Send(p) ==
    /\ ppc[p] = "send"
    /\ outbound' = outbound \cup
                      {[by |-> p, method |-> preq[p].method, Authorization |-> auth[p]]}
    /\ \E out \in {"response", "timeout", "error"} :
         presp' = [presp EXCEPT ![p] =
                     CASE out = "response" -> [status |-> 200, detail |-> "upstream"]
                       [] out = "timeout"  -> [status |-> 504, detail |-> "OpenAI API timeout"]
                       [] out = "error"    -> [status |-> 502, detail |-> "OpenAI API nedostupan"]]
    /\ ppc' = [ppc EXCEPT ![p] = "done"]
    /\ UNCHANGED <<env, preq, auth>>
    /\ UNCHANGED convVars

\* the deployment sets, changes or unsets OPENAI_API_KEY
SetEnv ==
    /\ \E k \in Keys \ {env} : env' = k
    /\ UNCHANGED <<preq, ppc, auth, outbound, presp>>
    /\ UNCHANGED convVars

----------------------------------------------------------------------------
(* Initial states and specifications of the conversion handlers *)

Endpoints == {"dwg-to-dxf", "dwg-to-svg"}

ProxyIdle ==
    /\ env = ""
    /\ preq = [p \in PReqs |-> NoProxyRequest]
    /\ ProxyLocals

ConvLocals ==
    /\ pc = [r \in Reqs |-> IF req[r] = NoRequest THEN "idle" ELSE "received"]
    /\ content = [r \in Reqs |-> NoBytes]
    /\ tmpdir = [r \in Reqs |-> 0]
    /\ proc = [r \in Reqs |-> NoProc]
    /\ rendered = [r \in Reqs |-> "no"]
    /\ response = [r \in Reqs |-> NoResponse]
    /\ dirs = {}
    /\ files = [k \in DirNames \X FileNames |-> Absent]

\* one request, with any file name and any length around the limit
Init ==
    /\ \E r \in Reqs :
       \E x \in [endpoint : Endpoints, file : Uploads({r}, Names, Lens)] :
         req = [q \in Reqs |-> IF q = r THEN x ELSE NoRequest]
    /\ ConvLocals
    /\ ProxyIdle

Next ==
    \E r \in Reqs :
       \/ Dxf_Validate(r)
       \/ Dxf_ReadUpload(r)
       \/ Dxf_EnterTmpdir(r)
       \/ Dxf_WriteInput(r)
       \/ Dxf_RunConverter(r)
       \/ Dxf_Respond(r)
       \/ Dxf_ExitTmpdir(r)
       \/ Svg_Validate(r)
       \/ Svg_ReadUpload(r)
       \/ Svg_EnterTmpdir(r)
       \/ Svg_WriteInput(r)
       \/ Svg_RunConverter(r)
       \/ Svg_CheckExit(r)
       \/ Svg_Render(r)
       \/ Svg_Respond(r)
       \/ Svg_ExitTmpdir(r)

Spec == Init /\ [][Next]_vars

\* every slot holds a request with an acceptable upload of its own, and the
\* requests are in flight together
InitConc ==
    /\ req \in [Reqs -> [endpoint : Endpoints,
                         file : [named : {TRUE}, filename : { <<"a">> \o DWG },
                                 bytes : {UploadBytes(r, MAX_UPLOAD - r) : r \in Reqs}]]]
    /\ \A r \in Reqs : req[r].file.bytes.id = r
    \* the slots are interchangeable: the dwg-to-dxf requests come first
    /\ \A r, q \in Reqs : (r < q /\ IsSvg(r)) => IsSvg(q)
    /\ ConvLocals
    /\ ProxyIdle

SpecConc == InitConc /\ [][Next]_vars

InitProxy ==
    /\ req = [r \in Reqs |-> NoRequest]
    /\ ConvLocals
    /\ env \in Keys
    /\ preq \in [PReqs -> ProxyRequests]
    \* the slots are interchangeable: the POST requests come first
    /\ \A p, q \in PReqs : (p < q /\ preq[p].method = "GET") => preq[q].method = "GET"
    /\ ProxyLocals

NextProxy ==
    \/ \E p \in PReqs :
          \/ Proxy_Resolve(p)
          \/ Proxy_ReadBody(p)
          \/ Proxy_Send(p)
    \/ SetEnv

SpecProxy == InitProxy /\ [][NextProxy]_vars

----------------------------------------------------------------------------
(* Properties *)

Done(r) == pc[r] = "done"

\* the request is inside its `with tempfile.TemporaryDirectory()` block
InBlock(r) == pc[r] \in {"write", "run", "check", "render", "readsvg", "exit"}

Hop1Exited(r)   == proc[r].kind = "exited"
Hop1TimedOut(r) == proc[r].kind = "timeout"

\* C1: in convert_dwg_to_svg, when hop 1 succeeds and rendering then fails,
\* the response is not a 500: its body is the intermediate DXF artifact and it
\* carries X-Fallback: true and the rendering error text.
C1_FallbackOnRenderFailure ==
    \A r \in Reqs :
       ( /\ IsSvg(r) /\ Done(r)
         /\ Hop1Exited(r) /\ proc[r].returncode = 0 /\ proc[r].wrote = "expected"
         /\ rendered[r] = "failed" )
       => /\ response[r].status # 500
          /\ response[r].body = Dwg2Dxf(req[r].file.bytes)
          /\ response[r].XFallback = "true"
          /\ response[r].XError # ""

\* C2: in convert_dwg_to_svg, if hop 1 fails (non-zero exit or timeout) the
\* rendering stage is never started and the request ends with a failure.
C2_Hop1FailureSkipsRender ==
    \A r \in Reqs :
       ( /\ IsSvg(r)
         /\ \/ Hop1TimedOut(r)
            \/ Hop1Exited(r) /\ proc[r].returncode # 0 )
       => /\ rendered[r] = "no"
          /\ pc[r] \in {"check", "exit", "done"}
          /\ response[r].status \in {0, 500}
          /\ Done(r) => response[r].status = 500

C2_Witness ==
    \E r \in Reqs :
       /\ IsSvg(r) /\ Done(r)
       /\ Hop1Exited(r) /\ proc[r].returncode # 0 /\ proc[r].wrote = "expected"
       /\ response[r].status = 500

\* C3: when the request has finished, no working directory and no file of
\* one exists, whatever the exit path (the request is the only one here).
C3_WorkingDirRemoved ==
    \A r \in Reqs :
       Done(r)
       => /\ dirs = {}
          /\ \A k \in DOMAIN files : files[k] = Absent

C3_Witness ==
    \E r \in Reqs :
       /\ Done(r) /\ dirs = {}
       /\ Hop1TimedOut(r) /\ proc[r].wrote # "none"
       /\ response[r].status = 500

\* the file name ends in ".dwg" in some letter case
EndsInDwgAnyCase(f) ==
    /\ f.named
    /\ Len(f.filename) >= 4
    /\ LET n == Len(f.filename)
       IN  /\ f.filename[n - 3] = "."
           /\ f.filename[n - 2] \in {"d", "D"}
           /\ f.filename[n - 1] \in {"w", "W"}
           /\ f.filename[n] \in {"g", "G"}

\* C4: an upload whose file name is missing or does not end in ".dwg" (in any
\* letter case) is rejected with 400 before any I/O: nothing is read, no
\* directory is created, no file is written, the converter is not invoked.
C4_BadNameRejectedBeforeIO ==
    \A r \in Reqs :
       (pc[r] \notin {"idle", "received"} /\ ~EndsInDwgAnyCase(req[r].file))
       => /\ Done(r)
          /\ response[r].status = 400
          /\ content[r] = NoBytes
          /\ tmpdir[r] = 0
          /\ proc[r] = NoProc
          /\ dirs = {}
          /\ \A k \in DOMAIN files : files[k] = Absent

C4_Witness ==
    \E r \in Reqs :
       /\ Done(r) /\ response[r].status = 400
       /\ req[r].file.named /\ endswith(req[r].file.filename, <<"d", "w", "g">>)

\* C5: an upload with an accepted name and more than 50 MiB is rejected with
\* 413 and no working directory exists afterwards; one of at most 50 MiB is
\* not rejected by the size check.
C5_OversizeRejected ==
    \A r \in Reqs :
       (pc[r] \notin {"idle", "received", "read"} /\ EndsInDwgAnyCase(req[r].file))
       => IF req[r].file.bytes.len > 50 * 1024 * 1024
          THEN /\ Done(r)
               /\ response[r].status = 413
               /\ tmpdir[r] = 0
               /\ proc[r] = NoProc
               /\ dirs = {}
          ELSE /\ response[r].status # 413
               /\ pc[r] = "write" => tmpdir[r] \in dirs

C5_Witness ==
    \E r \in Reqs :
       /\ Done(r) /\ response[r].status = 413
       /\ req[r].file.bytes.len = 50 * 1024 * 1024 + 1
       /\ dirs = {}

\* C6: in convert_dwg_to_dxf, after the converter returns without timing
\* out, the outcome is decided by whether an output artifact exists (at the
\* expected path or under another .dxf name), not by the exit code.
C6_ArtifactDecides ==
    \A r \in Reqs :
       (IsDxf(r) /\ Done(r) /\ Hop1Exited(r))
       => /\ (proc[r].wrote # "none") <=> (response[r].status = 200)
          /\ response[r].status = 200 => response[r].body = Dwg2Dxf(req[r].file.bytes)

\* C7: with no server key and no (or an empty) Authorization header, the
\* proxy request ends with 401 and makes no call upstream.
C7_NoCredentialNoCall ==
    [][ \A p \in PReqs :
          /\ ( /\ ppc[p] = "start" /\ ppc'[p] # "start"
               /\ env = "" /\ HeaderAuthorization(preq[p]) = <<>> )
             => /\ ppc'[p] = "done"
                /\ presp'[p].status = 401
                /\ outbound' = outbound
          /\ presp'[p].status = 401
             => \A c \in outbound' : c.by # p ]_vars

C7_Witness ==
    \E p \in PReqs :
       /\ ppc[p] = "done" /\ presp[p].status = 401
       /\ \A c \in outbound : c.by # p
       /\ \E q \in PReqs : ppc[q] = "done" /\ presp[q].status = 200

\* C8: the Authorization forwarded upstream is the server's key whenever one
\* is configured when the request is handled, whatever the caller sent; the
\* caller's header is forwarded only when no key is configured.
C8_ServerKeyPreferred ==
    [][ \A p \in PReqs :
          /\ (ppc[p] = "start" /\ ppc'[p] # "start")
             => auth'[p] = IF env # "" THEN <<"Bearer ", env>>
                           ELSE IF preq[p].hasAuth THEN preq[p].Authorization
                           ELSE <<>>
          /\ ppc[p] \in {"body", "send"} => auth'[p] = auth[p]
          /\ (ppc[p] = "send" /\ ppc'[p] = "done")
             => \E c \in outbound' \ outbound :
                   /\ outbound' = outbound \cup {c}
                   /\ c.by = p
                   /\ c.method = preq[p].method
                   /\ c.Authorization = auth[p] ]_vars

C8_Witness ==
    \E c, d \in outbound :
       /\ c.by # d.by
       /\ c.Authorization = <<"Bearer ", "sk-1">>
       /\ d.Authorization = <<"Bearer ", "sk-2">>
       /\ preq[d.by].Authorization = <<"Bearer ", "sk-caller">>

\* the input file name with its extension swapped to ".dxf"
SwapExtension(name) == SubSeq(name, 1, Len(name) - 4) \o DXF

\* C9: a successful convert_dwg_to_dxf response has media type
\* application/dxf and an attachment file name equal to the input file name
\* with only its trailing extension changed to ".dxf".
C9_ExtensionSwapped ==
    \A r \in Reqs :
       (IsDxf(r) /\ Done(r) /\ response[r].status = 200)
       => /\ response[r].media_type = "application/dxf"
          /\ response[r].ContentDisposition =
                <<"attachment; filename=">> \o SwapExtension(req[r].file.filename)

\* the response a request gets when nothing else runs: a function of its own
\* upload and of what the converter and the renderer did for it
AloneResponse(r) ==
    LET f == req[r].file
        isDxf == req[r].endpoint = "dwg-to-dxf"
        prefix == IF isDxf THEN "Konverzija nije uspjela: " ELSE "SVG konverzija nije uspjela: "
    IN
    IF ~EndsInDwgAnyCase(f) THEN HTTPException(400, <<"Fajl mora biti .dwg format">>)
    ELSE IF f.bytes.len > 50 * 1024 * 1024 THEN HTTPException(413, <<"Fajl je prevelik (max 50MB)">>)
    ELSE IF proc[r].kind = "none" THEN ServerError
    ELSE IF proc[r].kind = "timeout" THEN HTTPException(500, <<"Konverzija je istekla (timeout)">>)
    ELSE IF proc[r].kind = "oserror"
         THEN HTTPException(500, <<prefix, "No such file or directory: 'dwg2dxf'">>)
    ELSE IF proc[r].returncode # 0
         THEN HTTPException(500, <<IF isDxf THEN prefix ELSE "DWG->DXF konverzija nije uspjela: ",
                                   proc[r].stderr>>)
    ELSE IF isDxf
         THEN IF proc[r].wrote = "expected"
              THEN [NoResponse EXCEPT
                      !.status = 200, !.media_type = "application/dxf",
                      !.body = Dwg2Dxf(f.bytes),
                      !.ContentDisposition = ContentDisposition(f.filename)]
              ELSE HTTPException(500, <<prefix, "No such file or directory: 'output.dxf'">>)
    ELSE IF rendered[r] = "ok"
         THEN [NoResponse EXCEPT
                 !.status = 200, !.media_type = "image/svg+xml",
                 !.body = Dxf2Svg(Dwg2Dxf(f.bytes))]
    ELSE HTTPException(500, <<prefix,
                              IF proc[r].wrote = "expected"
                              THEN "Invalid or corrupted DXF file"
                              ELSE "No such file or directory: 'input.dxf'">>)

\* C10: requests in flight together do not interfere: each owns its working
\* directory exclusively, the files in it derive from its own upload and are
\* there until its own cleanup, and its response is the one it gets alone.
C10_NoInterference ==
    \A r \in Reqs :
       /\ InBlock(r)
          => /\ tmpdir[r] \in dirs
             /\ \A q \in Reqs \ {r} : InBlock(q) => tmpdir[q] # tmpdir[r]
             /\ \A n \in FileNames :
                   files[<<tmpdir[r], n>>] # Absent
                   => files[<<tmpdir[r], n>>].id = req[r].file.bytes.id
       /\ pc[r] \in {"run", "check", "render", "readsvg"}
          => files[<<tmpdir[r], "input.dwg">>] = req[r].file.bytes
       /\ (pc[r] = "check" /\ proc[r].wrote = "expected")
          => files[<<tmpdir[r], IF IsDxf(r) THEN "output.dxf" ELSE "input.dxf">>]
                = Dwg2Dxf(req[r].file.bytes)
       /\ Done(r) => response[r] = AloneResponse(r)

C10_Witness ==
    \E r, q \in Reqs :
       /\ r # q
       /\ pc[r] = "check" /\ proc[r].wrote = "expected"
       /\ pc[q] = "readsvg"
       /\ tmpdir[r] # tmpdir[q]
       /\ {tmpdir[r], tmpdir[q]} \subseteq dirs

====
